---- MODULE Spec2Model ----
(***************************************************************************)
(* Model of uablock-rust: the firewall reconciler (IptablesManager), the   *)
(* allow-list matcher (Whitelist) and the dispatch loop (main).            *)
(*                                                                         *)
(* The iptables chain is external state: a sequence of rules.  The text    *)
(* that `iptables -L <chain> -n --line-numbers` prints is rebuilt from the *)
(* rules, character by character, because the code decides on substrings   *)
(* of that text.                                                           *)
(***************************************************************************)
EXTENDS Integers, Sequences, FiniteSets, TLC

(***************************************************************************)
(* Bounds of the model.                                                    *)
(***************************************************************************)
\* rules in the chain when the manager first looks at it
MaxInitRules == 2
\* calls of block_ip / unblock_ip made by a client of the manager
MaxCalls == 2
\* calls made by a client when firewall commands may fail
MaxFaultyCalls == 1
\* iterations of the dispatch loop
MaxIter == 2

(***************************************************************************)
(* Text: a string is a sequence of one-character strings.                  *)
(***************************************************************************)
DigitChars == <<"0", "1", "2", "3", "4", "5", "6", "7", "8", "9">>

RECURSIVE DecStr(_)
\* u16 / u32 / u8 to_string(): decimal, no padding
DecStr(n) ==
    IF n < 10 THEN <<DigitChars[n + 1]>>
    ELSE DecStr(n \div 10) \o <<DigitChars[(n % 10) + 1]>>

\* str::contains(needle)
Contains(hay, needle) ==
    \E i \in 0..(Len(hay) - Len(needle)) :
        SubSeq(hay, i + 1, i + Len(needle)) = needle

\* IpAddr::to_string() of an IPv4 address: dotted decimal
IpToString(ip) ==
    DecStr(ip[1]) \o <<".">> \o DecStr(ip[2]) \o <<".">> \o
    DecStr(ip[3]) \o <<".">> \o DecStr(ip[4])

\* block_port: Option<u16>; None
NoPort == -1

\* the default block port of main
SipPort == 5060

S_DROP == <<"D", "R", "O", "P">>
S_ACCEPT == <<"A", "C", "C", "E", "P", "T">>
S_udp == <<"u", "d", "p">>
S_all == <<"a", "l", "l">>
S_dpt == <<"d", "p", "t", ":">>
S_sip == <<"s", "i", "p">>
S_dptsip == <<"d", "p", "t", ":", "s", "i", "p">>
S_anywhere == <<"0", ".", "0", ".", "0", ".", "0", "/", "0">>
SP == <<" ">>

(***************************************************************************)
(* The chain.  A rule is [src, dport, target]; dport = NoPort is a rule    *)
(* with no protocol/port match.                                            *)
(***************************************************************************)
\* two addresses, the text of the first a substring of the text of the second
IPs == {<<1, 2, 3, 4>>, <<1, 2, 3, 40>>}

BlockPorts == {NoPort, SipPort}

Targets == {"DROP", "ACCEPT"}

Rules == [src : IPs, dport : BlockPorts, target : Targets]

RECURSIVE SeqsUpTo(_, _)
SeqsUpTo(S, n) ==
    IF n = 0 THEN {<<>>}
    ELSE LET shorter == SeqsUpTo(S, n - 1)
         IN shorter \cup {Append(s, x) : s \in {t \in shorter : Len(t) = n - 1}, x \in S}

\* one rule line of `iptables -L <chain> -n --line-numbers`:
\* num target prot opt source destination [udp dpt:<port>]
RuleLine(num, r) ==
    DecStr(num) \o SP \o
    (IF r.target = "DROP" THEN S_DROP ELSE S_ACCEPT) \o SP \o
    (IF r.dport = NoPort THEN S_all ELSE S_udp) \o SP \o <<"-", "-">> \o SP \o
    IpToString(r.src) \o SP \o S_anywhere \o
    (IF r.dport = NoPort THEN <<>> ELSE SP \o S_udp \o SP \o S_dpt \o DecStr(r.dport))

\* the rule lines of the listing (the two header lines hold no address and
\* never match)
Listing(ch) == [i \in 1..Len(ch) |-> RuleLine(i, ch[i])]

\* the rule the -C / -A / -D <spec> arguments describe
RuleSpec(ip, bp) == [src |-> ip, dport |-> bp, target |-> "DROP"]

HasRule(ch, r) == \E i \in 1..Len(ch) : ch[i] = r

FirstIndex(ch, r) == CHOOSE i \in 1..Len(ch) : ch[i] = r /\ \A j \in 1..(i - 1) : ch[j] # r

RemoveAt(ch, i) == SubSeq(ch, 1, i - 1) \o SubSeq(ch, i + 1, Len(ch))

(***************************************************************************)
(* Parsing the line number: line.split_whitespace().next() and             *)
(* parse::<u32>().                                                         *)
(***************************************************************************)
RECURSIVE SkipSpaces(_)
SkipSpaces(s) == IF s # <<>> /\ Head(s) = " " THEN SkipSpaces(Tail(s)) ELSE s

RECURSIVE UpToSpace(_)
UpToSpace(s) ==
    IF s = <<>> \/ Head(s) = " " THEN <<>> ELSE <<Head(s)>> \o UpToSpace(Tail(s))

\* split_whitespace().next(): <<>> stands for None (a token is never empty)
FirstToken(line) == UpToSpace(SkipSpaces(line))

IsDigit(c) == \E d \in 1..10 : DigitChars[d] = c

DigitVal(c) == (CHOOSE d \in 1..10 : DigitChars[d] = c) - 1

RECURSIVE DigitsValue(_, _)
DigitsValue(s, acc) ==
    IF s = <<>> THEN acc ELSE DigitsValue(Tail(s), acc * 10 + DigitVal(Head(s)))

\* parse::<u32>(): -1 stands for Err (the model's line numbers are far from u32::MAX)
ParseU32(tok) ==
    IF tok # <<>> /\ \A i \in 1..Len(tok) : IsDigit(tok[i])
    THEN DigitsValue(tok, 0)
    ELSE -1

(***************************************************************************)
(* The firewall commands.  Each operator gives the SET of outcomes one     *)
(* invocation of `iptables` can have.  With flaky = FALSE the firewall     *)
(* executes every command faithfully and there is one outcome.  With       *)
(* flaky = TRUE a command may also fail to be invoked, or exit non-zero    *)
(* for a reason other than its rule being absent (fault = TRUE); such a    *)
(* command changes nothing.  The code cannot tell the two failures apart:  *)
(* in both it sees "no success".                                           *)
(***************************************************************************)
Outcome(ok, fault) == [ok |-> ok, fault |-> fault]

Failure(flaky) == IF flaky THEN {Outcome(FALSE, TRUE)} ELSE {}

\* iptables -C <chain> <rule>: succeeds iff the chain holds exactly that rule
CheckCmd(ch, r, flaky) ==
    {Outcome(HasRule(ch, r), FALSE)} \cup (IF HasRule(ch, r) THEN Failure(flaky) ELSE {})

\* iptables -L <chain> -n --line-numbers
ListCmd(flaky) == {Outcome(TRUE, FALSE)} \cup Failure(flaky)

\* iptables -A <chain> <rule>
AppendCmd(flaky) == {Outcome(TRUE, FALSE)} \cup Failure(flaky)

\* iptables -D <chain> <num>: succeeds iff the chain has a rule number num
DeleteNumCmd(ch, num, flaky) ==
    {Outcome(num \in 1..Len(ch), FALSE)} \cup (IF num \in 1..Len(ch) THEN Failure(flaky) ELSE {})

\* iptables -D <chain> <rule>: succeeds iff the chain holds exactly that rule
DeleteSpecCmd(ch, r, flaky) ==
    {Outcome(HasRule(ch, r), FALSE)} \cup (IF HasRule(ch, r) THEN Failure(flaky) ELSE {})

\* an entry of a call's command log
Entry(cmd, o) == [cmd |-> cmd, ok |-> o.ok, fault |-> o.fault]

\* the port test of is_blocked's scan of the listing
PortMatchIsBlocked(line, bp) ==
    \/ Contains(line, S_dpt \o DecStr(bp))
    \/ Contains(line, DecStr(bp))
    \/ (bp = 5060 /\ (Contains(line, S_dptsip) \/ Contains(line, S_sip)))

\* the test of one listing line in is_blocked
LineBlocks(line, ip, bp) ==
    /\ Contains(line, IpToString(ip))
    /\ Contains(line, S_DROP)
    /\ (bp # NoPort => PortMatchIsBlocked(line, bp))

\* the test of one listing line in unblock_ip
LineToDelete(line, ip, bp) ==
    /\ Contains(line, IpToString(ip))
    /\ Contains(line, S_DROP)
    /\ (bp # NoPort => Contains(line, DecStr(bp)))

\* line numbers the model's listings can show
LineNums == 1..(MaxInitRules + MaxCalls + MaxIter)

\* the three functions of a rule line the code uses, computed once per
\* (line number, rule, address, port)
LineBlocksOf ==
    [num \in LineNums, r \in Rules, ip \in IPs, bp \in BlockPorts |->
        LineBlocks(RuleLine(num, r), ip, bp)]

LineToDeleteOf ==
    [num \in LineNums, r \in Rules, ip \in IPs, bp \in BlockPorts |->
        LineToDelete(RuleLine(num, r), ip, bp)]

LineNumberOf ==
    [num \in LineNums, r \in Rules |-> ParseU32(FirstToken(RuleLine(num, r)))]

\* is_blocked's scan of the listing of ch
ListingBlocks(ch, ip, bp) == \E i \in 1..Len(ch) : LineBlocksOf[i, ch[i], ip, bp]

\* an is_blocked that probes for a rule the manager never writes, and so
\* never finds one
is_blocked_wrong_rule(ch, ip, bp, flaky) ==
    {[res |-> FALSE,
      log |-> <<Entry("C", Outcome(FALSE, FALSE)), Entry("L", l)>>] : l \in ListCmd(flaky)}

\* is_blocked(ip): the outcomes [res, log]
is_blocked(ch, ip, bp, flaky) ==
    UNION {
        IF c.ok
        THEN {[res |-> TRUE, log |-> <<Entry("C", c)>>]}
        ELSE {[res |-> l.ok /\ ListingBlocks(ch, ip, bp),
               log |-> <<Entry("C", c), Entry("L", l)>>] : l \in ListCmd(flaky)}
        : c \in CheckCmd(ch, RuleSpec(ip, bp), flaky)}

\* the result of a call: what it returned, the chain it leaves, the commands
\* it issued and what block_ip's post-condition check said ("none" when the
\* call made none)
Result(ret, ch, log, post) == [ret |-> ret, chain |-> ch, log |-> log, post |-> post]

\* the results R of a call whose first is_blocked had the outcome pre
AfterCheck(pre, R) ==
    {[ret |-> r.ret, chain |-> r.chain, log |-> r.log, post |-> r.post,
      pre |-> pre.res] : r \in R}

\* a post-condition check taken for a failure of the call
BlockVerifyStrict(ch2, ip, bp, flaky, log) ==
    UNION {
        IF post.res
        THEN {Result("Ok", ch2, log \o post.log, "true")}
        ELSE {Result("Err", ch2, log \o post.log, "false")}
        : post \in is_blocked(ch2, ip, bp, flaky)}

\* block_ip once the append has succeeded: the post-condition check and, when
\* it fails, the listing printed for debugging
BlockVerify(ch2, ip, bp, flaky, log) ==
    UNION {
        IF post.res
        THEN {Result("Ok", ch2, log \o post.log, "true")}
        ELSE {Result("Ok", ch2, log \o post.log \o <<Entry("L", d)>>, "false")
              : d \in ListCmd(flaky)}
        : post \in is_blocked(ch2, ip, bp, flaky)}

\* an append that leaves out the protocol and port of the rule
BlockAppendNoPort(ch, ip, bp, flaky, log) ==
    UNION {
        IF a.ok
        THEN BlockVerify(Append(ch, RuleSpec(ip, NoPort)), ip, bp, flaky,
                         log \o <<Entry("A", a)>>)
        ELSE {Result("Err", ch, log \o <<Entry("A", a)>>, "none")}
        : a \in AppendCmd(flaky)}

\* block_ip after is_blocked said "not blocked": the append
BlockAppend(ch, ip, bp, flaky, log) ==
    UNION {
        IF a.ok
        THEN BlockVerify(Append(ch, RuleSpec(ip, bp)), ip, bp, flaky,
                         log \o <<Entry("A", a)>>)
        ELSE {Result("Err", ch, log \o <<Entry("A", a)>>, "none")}
        : a \in AppendCmd(flaky)}

\* a block_ip that appends whatever is_blocked says
block_ip_unchecked(ch, ip, bp, flaky) ==
    UNION {
        AfterCheck(pre, BlockAppend(ch, ip, bp, flaky, pre.log))
        : pre \in is_blocked(ch, ip, bp, flaky)}

\* block_ip(ip): the outcomes
block_ip(ch, ip, bp, flaky) ==
    UNION {
        AfterCheck(pre, IF pre.res
                        THEN {Result("Ok", ch, pre.log, "none")}
                        ELSE BlockAppend(ch, ip, bp, flaky, pre.log))
        : pre \in is_blocked(ch, ip, bp, flaky)}

\* unblock_ip's last resort: -D <chain> -s ip [-p udp --dport port] -j DROP
DeleteBySpec(ch, ip, bp, flaky, log) ==
    {IF d.ok
     THEN Result("Ok", RemoveAt(ch, FirstIndex(ch, RuleSpec(ip, bp))),
                 log \o <<Entry("Ds", d)>>, "none")
     ELSE Result("Err", ch, log \o <<Entry("Ds", d)>>, "none")
     : d \in DeleteSpecCmd(ch, RuleSpec(ip, bp), flaky)}

RECURSIVE ScanAndDelete(_, _, _, _, _, _, _)
\* a scan that gives up with an error at the first deletion by line number
\* that fails
ScanAndDeleteGiveUp(listed, i, ch, ip, bp, flaky, log) ==
    IF i > Len(listed)
    THEN DeleteBySpec(ch, ip, bp, flaky, log)
    ELSE IF LineToDeleteOf[i, listed[i], ip, bp] /\ LineNumberOf[i, listed[i]] # -1
         THEN {IF d.ok
               THEN Result("Ok", RemoveAt(ch, LineNumberOf[i, listed[i]]),
                           log \o <<Entry("Dn", d)>>, "none")
               ELSE Result("Err", ch, log \o <<Entry("Dn", d)>>, "none")
               : d \in DeleteNumCmd(ch, LineNumberOf[i, listed[i]], flaky)}
         ELSE ScanAndDelete(listed, i + 1, ch, ip, bp, flaky, log)

\* unblock_ip's loop over the lines of the listing it took of the chain
\* `listed`, from line i on; ch is the chain as it is now
ScanAndDelete(listed, i, ch, ip, bp, flaky, log) ==
    IF i > Len(listed)
    THEN DeleteBySpec(ch, ip, bp, flaky, log)
    ELSE IF LineToDeleteOf[i, listed[i], ip, bp] /\ LineNumberOf[i, listed[i]] # -1
         THEN UNION {
                 IF d.ok
                 THEN {Result("Ok", RemoveAt(ch, LineNumberOf[i, listed[i]]),
                              log \o <<Entry("Dn", d)>>, "none")}
                 ELSE ScanAndDelete(listed, i + 1, ch, ip, bp, flaky,
                                    log \o <<Entry("Dn", d)>>)
                 : d \in DeleteNumCmd(ch, LineNumberOf[i, listed[i]], flaky)}
         ELSE ScanAndDelete(listed, i + 1, ch, ip, bp, flaky, log)

\* unblock_ip once is_blocked said "blocked": the listing, then the scan
UnblockListed(ch, ip, bp, flaky, log) ==
    UNION {
        IF l.ok
        THEN ScanAndDelete(ch, 1, ch, ip, bp, flaky, log \o <<Entry("L", l)>>)
        ELSE {Result("Err", ch, log \o <<Entry("L", l)>>, "none")}
        : l \in ListCmd(flaky)}

\* an unblock_ip that goes on to the listing whatever is_blocked says
unblock_ip_unchecked(ch, ip, bp, flaky) ==
    UNION {
        AfterCheck(pre, UnblockListed(ch, ip, bp, flaky, pre.log))
        : pre \in is_blocked(ch, ip, bp, flaky)}

\* unblock_ip(ip): the outcomes
unblock_ip(ch, ip, bp, flaky) ==
    UNION {
        AfterCheck(pre, IF ~pre.res
                        THEN {Result("Ok", ch, pre.log, "none")}
                        ELSE UnblockListed(ch, ip, bp, flaky, pre.log))
        : pre \in is_blocked(ch, ip, bp, flaky)}

(***************************************************************************)
(* The allow-list matcher.                                                 *)
(***************************************************************************)
UpperChars ==
    <<"A", "B", "C", "D", "E", "F", "G", "H", "I", "J", "K", "L", "M",
      "N", "O", "P", "Q", "R", "S", "T", "U", "V", "W", "X", "Y", "Z">>

LowerChars ==
    <<"a", "b", "c", "d", "e", "f", "g", "h", "i", "j", "k", "l", "m",
      "n", "o", "p", "q", "r", "s", "t", "u", "v", "w", "x", "y", "z">>

LowerChar(c) ==
    IF \E i \in 1..26 : UpperChars[i] = c
    THEN LowerChars[CHOOSE i \in 1..26 : UpperChars[i] = c]
    ELSE c

\* str::to_lowercase(), on the ASCII text the model uses
ToLower(str) == [i \in 1..Len(str) |-> LowerChar(str[i])]

\* the built-in allow-list of initialize_whitelist
DefaultPatterns ==
    << <<"f", "r", "e", "e", "s", "w", "i", "t", "c", "h">>,
       <<"m", "i", "c", "r", "o", "s", "i", "p">>,
       <<"t", "e", "l", "e", "p", "h", "o", "n", "e">>,
       <<"j", "s", "s", "i", "p">> >>

\* a matcher that only looks for the pattern inside the User-Agent
RECURSIVE is_allowed_one_way(_, _)
is_allowed_one_way(pats, ua) ==
    IF pats = <<>>
    THEN FALSE
    ELSE IF Contains(ToLower(ua), ToLower(Head(pats)))
         THEN TRUE
         ELSE is_allowed_one_way(Tail(pats), ua)

\* Whitelist::is_allowed: the patterns in order, the first match returns
RECURSIVE is_allowed(_, _)
is_allowed(pats, ua) ==
    IF pats = <<>>
    THEN FALSE
    ELSE LET ua_lower == ToLower(ua)
             pattern_lower == ToLower(Head(pats))
         IN IF Contains(ua_lower, pattern_lower) \/ Contains(pattern_lower, ua_lower)
            THEN TRUE
            ELSE is_allowed(Tail(pats), ua)

\* the User-Agent values of the requests the model's packets carry:
\* "MicroSIP/3.20", "sipcli/v1.8" and "Unknown" (a request with no User-Agent header)
UA_MicroSIP == <<"M", "i", "c", "r", "o", "S", "I", "P", "/", "3", ".", "2", "0">>

UA_sipcli == <<"s", "i", "p", "c", "l", "i", "/", "v", "1", ".", "8">>

UA_Unknown == <<"U", "n", "k", "n", "o", "w", "n">>

UserAgents == {UA_MicroSIP, UA_sipcli, UA_Unknown}

\* is_allowed on the process's allow-list, computed once per User-Agent
IsAllowedOf == [ua \in UserAgents |-> is_allowed(DefaultPatterns, ua)]

(***************************************************************************)
(* The policy step of the dispatch loop: what main does with one extracted *)
(* SIP request.  The outcomes are records of what the step observed        *)
(* (allowed, blocked), which manager call it made (called, call), what the *)
(* confirmation check after a successful block_ip said (confirmed) and the *)
(* chain it leaves.                                                        *)
(***************************************************************************)
NoResult(ch) == [ret |-> "none", chain |-> ch, log |-> <<>>, post |-> "none", pre |-> FALSE]

Step(allowed, b, called, call, confirmed) ==
    [allowed |-> allowed, blocked |-> b.res, checklog |-> b.log, called |-> called,
     call |-> call, confirmed |-> confirmed]

\* the branch for an allow-listed User-Agent
DispatchAllowed(ch, ip, bp, fl, b) ==
    IF b.res
    THEN {Step(TRUE, b, "unblock_ip", r, "none") : r \in unblock_ip(ch, ip, bp, fl)}
    ELSE {Step(TRUE, b, "none", NoResult(ch), "none")}

\* the branch for any other User-Agent
DispatchDenied(ch, ip, bp, fl, b) ==
    IF ~b.res
    THEN UNION {
            IF r.ret = "Ok"
            THEN {Step(FALSE, b, "block_ip", r, IF c.res THEN "true" ELSE "false")
                  : c \in is_blocked(r.chain, ip, bp, fl)}
            ELSE {Step(FALSE, b, "block_ip", r, "none")}
            : r \in block_ip(ch, ip, bp, fl)}
    ELSE {Step(FALSE, b, "none", NoResult(ch), "none")}

\* a policy step that blocks the allow-listed and unblocks the others
dispatch_inverted(ch, ip, ua, bp, fl) ==
    UNION {
        IF ~IsAllowedOf[ua]
        THEN DispatchAllowed(ch, ip, bp, fl, b)
        ELSE DispatchDenied(ch, ip, bp, fl, b)
        : b \in is_blocked(ch, ip, bp, fl)}

dispatch(ch, ip, ua, bp, fl) ==
    UNION {
        IF IsAllowedOf[ua]
        THEN DispatchAllowed(ch, ip, bp, fl, b)
        ELSE DispatchDenied(ch, ip, bp, fl, b)
        : b \in is_blocked(ch, ip, bp, fl)}

\* the cleanup period of the loop, in iterations
CleanupPeriod == 1000

\* the retention window of last_processed, in seconds
RetentionSecs == 3600

\* u32::MAX = U32MaxQ * 1000 + U32MaxR
U32MaxQ == 4294967

U32MaxR == 295

\* HashMap::insert
MapInsert(m, k, v) == [x \in (DOMAIN m) \cup {k} |-> IF x = k THEN v ELSE m[x]]

\* a cleanup pass with the comparison turned around
RetainReversed(m, t) ==
    LET keep == {k \in DOMAIN m : t - m[k] > RetentionSecs}
    IN [k \in keep |-> m[k]]

\* HashMap::retain with the closure of the cleanup pass
Retain(m, t) ==
    LET keep == {k \in DOMAIN m : t - m[k] < RetentionSecs}
    IN [k \in keep |-> m[k]]

(***************************************************************************)
(* The frame decoder: PacketCapture::next_packet on a captured frame.  A   *)
(* frame is a sequence of bytes; data[i] of the code is Byte(data, i).     *)
(* The result records every index the code read (reads) and where the      *)
(* payload slice starts (from): an index at or past the end of the frame,  *)
(* or a slice start past it, is a panic in the code.                       *)
(***************************************************************************)
\* the Ethernet type of IPv4
EtherTypeIPv4 == 2048

\* the length the code requires of a frame and of a network header
MinIpHeader == 20

\* the length of the link-layer header
EthHeaderLen == 14

\* the length of the transport header
UdpHeaderLen == 8

\* data[i]; the value read past the end is never used, the read is recorded
Byte(data, i) == IF i < Len(data) THEN data[i + 1] ELSE 0

\* b & 0xF0 and b & 0x0F
HighNibble(b) == (b \div 16) * 16

LowNibble(b) == b % 16

\* the decoder's results: Ok(None), and Ok(Some((src_ip, udp_data)))
DecodedNone(reads) ==
    [done |-> TRUE, some |-> FALSE, ip |-> <<0, 0, 0, 0>>, data |-> <<>>,
     reads |-> reads, from |-> 0]

DecodedSome(ip, data, reads, from) ==
    [done |-> TRUE, some |-> TRUE, ip |-> ip, data |-> data, reads |-> reads, from |-> from]

\* data[from..]
SliceFrom(data, from) == SubSeq(data, from + 1, Len(data))

\* a decoder that takes every frame to begin with a link-layer header
ip_start_offset_ethernet(data) == [off |-> EthHeaderLen, reads |-> {}]

\* where the network header starts, with the indexes read to find it
ip_start_offset(data) ==
    IF Len(data) >= EthHeaderLen
    THEN LET ethertype == Byte(data, 12) * 256 + Byte(data, 13)
         IN IF ethertype = EtherTypeIPv4
            THEN [off |-> EthHeaderLen, reads |-> {12, 13}]
            ELSE IF HighNibble(Byte(data, 0)) = 64
                 THEN [off |-> 0, reads |-> {12, 13, 0}]
                 ELSE [off |-> EthHeaderLen, reads |-> {12, 13, 0}]
    ELSE [off |-> 0, reads |-> {0}]

\* src_ip_bytes: bytes 12..15 of the network header
SrcIpBytes(data, off) ==
    <<Byte(data, off + 12), Byte(data, off + 13), Byte(data, off + 14), Byte(data, off + 15)>>

\* udp_data_start: the header start, IHL words of network header, the UDP header
UdpDataStart(data, off) == off + LowNibble(Byte(data, off)) * 4 + UdpHeaderLen

\* the indexes read once the version check has passed
HeaderReads(reads, off) == reads \cup {off, off + 12, off + 13, off + 14, off + 15}

\* a decoder without the second length check
DecodeAtUnchecked(data, off, reads) ==
    IF HighNibble(Byte(data, off)) # 64
    THEN DecodedNone(reads \cup {off})
    ELSE IF Len(data) > UdpDataStart(data, off)
         THEN DecodedSome(SrcIpBytes(data, off), SliceFrom(data, UdpDataStart(data, off)),
                          HeaderReads(reads, off), UdpDataStart(data, off))
         ELSE DecodedNone(HeaderReads(reads, off))

\* a decoder that returns the empty payload of a frame that ends where the
\* payload would start
DecodeAtInclusive(data, off, reads) ==
    IF Len(data) < off + MinIpHeader
    THEN DecodedNone(reads)
    ELSE IF HighNibble(Byte(data, off)) # 64
    THEN DecodedNone(reads \cup {off})
    ELSE IF Len(data) >= UdpDataStart(data, off)
         THEN DecodedSome(SrcIpBytes(data, off), SliceFrom(data, UdpDataStart(data, off)),
                          HeaderReads(reads, off), UdpDataStart(data, off))
         ELSE DecodedNone(HeaderReads(reads, off))

\* the part of next_packet after the network header is located
DecodeAt(data, off, reads) ==
    IF Len(data) < off + MinIpHeader
    THEN DecodedNone(reads)
    ELSE IF HighNibble(Byte(data, off)) # 64
    THEN DecodedNone(reads \cup {off})
    ELSE IF Len(data) > UdpDataStart(data, off)
         THEN DecodedSome(SrcIpBytes(data, off), SliceFrom(data, UdpDataStart(data, off)),
                          HeaderReads(reads, off), UdpDataStart(data, off))
         ELSE DecodedNone(HeaderReads(reads, off))

\* PacketCapture::next_packet on the frame the capture handed over
next_packet(data) ==
    IF Len(data) < MinIpHeader
    THEN DecodedNone({})
    ELSE LET loc == ip_start_offset(data)
         IN DecodeAt(data, loc.off, loc.reads)

(***************************************************************************)
(* The SIP extractor: SipParser::parse_udp_packet.  A payload is a         *)
(* sequence of one-character strings; InvalidByte stands for a byte that   *)
(* no UTF-8 text contains.                                                 *)
(***************************************************************************)
InvalidByte == "0xFF"

\* std::str::from_utf8(data).is_ok()
Utf8Valid(data) == \A i \in 1..Len(data) : data[i] # InvalidByte

\* the characters \s matches and trim() removes, among those of the model
WhiteSpace == {" ", "\t", "\r", "\n"}

\* the characters [^\r\n] does not match
LineBreaks == {"\r", "\n"}

M_INVITE ==
    <<"I", "N", "V", "I", "T", "E">>

M_REGISTER ==
    <<"R", "E", "G", "I", "S", "T", "E", "R">>

M_OPTIONS ==
    <<"O", "P", "T", "I", "O", "N", "S">>

M_ACK ==
    <<"A", "C", "K">>

M_BYE ==
    <<"B", "Y", "E">>

M_CANCEL ==
    <<"C", "A", "N", "C", "E", "L">>

M_PRACK ==
    <<"P", "R", "A", "C", "K">>

M_UPDATE ==
    <<"U", "P", "D", "A", "T", "E">>

M_INFO ==
    <<"I", "N", "F", "O">>

M_REFER ==
    <<"R", "E", "F", "E", "R">>

M_MESSAGE ==
    <<"M", "E", "S", "S", "A", "G", "E">>

M_SUBSCRIBE ==
    <<"S", "U", "B", "S", "C", "R", "I", "B", "E">>

M_NOTIFY ==
    <<"N", "O", "T", "I", "F", "Y">>

\* the alternatives of method_regex, in its order
Methods ==
    <<M_INVITE, M_REGISTER, M_OPTIONS, M_ACK, M_BYE, M_CANCEL, M_PRACK,
      M_UPDATE, M_INFO, M_REFER, M_MESSAGE, M_SUBSCRIBE, M_NOTIFY>>

\* the header name of user_agent_regex, lower-cased, with its colon
UaHeaderName ==
    <<"u", "s", "e", "r", "-", "a", "g", "e", "n", "t", ":">>

\* the default of user_agent
T_Unknown ==
    <<"U", "n", "k", "n", "o", "w", "n">>

\* text.starts_with(pre)
StartsWith(text, pre) == Len(text) >= Len(pre) /\ SubSeq(text, 1, Len(pre)) = pre

RECURSIVE MethodMatch(_, _)
\* method_regex.captures(text): ^(INVITE|REGISTER|...)\s tries the
\* alternatives in order at the start of the text; <<>> stands for None
MethodMatch(text, alts) ==
    IF alts = <<>>
    THEN <<>>
    ELSE IF /\ StartsWith(text, Head(alts))
            /\ Len(text) > Len(Head(alts))
            /\ text[Len(Head(alts)) + 1] \in WhiteSpace
         THEN Head(alts)
         ELSE MethodMatch(text, Tail(alts))

\* (?i)(?:user-agent|User-Agent): matches at position i
HeaderNameAt(text, i) ==
    /\ i + Len(UaHeaderName) - 1 <= Len(text)
    /\ \A k \in 1..Len(UaHeaderName) : LowerChar(text[i + k - 1]) = UaHeaderName[k]

RECURSIVE SkipWhite(_, _)
\* \s*, greedy: the first position from j on that holds no white space
SkipWhite(text, j) ==
    IF j <= Len(text) /\ text[j] \in WhiteSpace THEN SkipWhite(text, j + 1) ELSE j

RECURSIVE LineEnd(_, _)
\* [^\r\n]+, greedy: the first position from k on that holds a line break
LineEnd(text, k) ==
    IF k <= Len(text) /\ text[k] \notin LineBreaks THEN LineEnd(text, k + 1) ELSE k

\* :\s*([^\r\n]+) after a header name at i.  \s* takes all the white space
\* there is, line breaks included, and the group starts at the first
\* character after it.  When the white space runs to the end of the text the
\* regex backtracks: \s* gives characters back until the group can start,
\* which is at the last character of the run that is no line break.
UaCaptureAt(text, i) ==
    LET j == i + Len(UaHeaderName)
        k == SkipWhite(text, j)
        back == {p \in j..Len(text) : text[p] \notin LineBreaks}
    IN IF k <= Len(text)
       THEN [ok |-> TRUE, cap |-> SubSeq(text, k, LineEnd(text, k) - 1)]
       ELSE IF back = {}
            THEN [ok |-> FALSE, cap |-> <<>>]
            ELSE LET p == CHOOSE q \in back : \A r \in back : r <= q
                 IN [ok |-> TRUE, cap |-> SubSeq(text, p, LineEnd(text, p) - 1)]

\* user_agent_regex.captures(text).and_then(|cap| cap.get(1)): the leftmost match
UaCapture(text) ==
    LET hits == {i \in 1..Len(text) : HeaderNameAt(text, i) /\ UaCaptureAt(text, i).ok}
    IN IF hits = {}
       THEN [ok |-> FALSE, cap |-> <<>>]
       ELSE UaCaptureAt(text, CHOOSE i \in hits : \A h \in hits : i <= h)

RECURSIVE TrimStart(_)
TrimStart(s) == IF s # <<>> /\ Head(s) \in WhiteSpace THEN TrimStart(Tail(s)) ELSE s

RECURSIVE TrimEnd(_)
TrimEnd(s) ==
    IF s # <<>> /\ s[Len(s)] \in WhiteSpace THEN TrimEnd(SubSeq(s, 1, Len(s) - 1)) ELSE s

\* str::trim()
Trim(s) == TrimEnd(TrimStart(s))

\* the user_agent of the record
ExtractUserAgent(text) ==
    IF UaCapture(text).ok THEN Trim(UaCapture(text).cap) ELSE T_Unknown

\* the extractor's results: None, and Some(SipRequest)
ParsedNone ==
    [done |-> TRUE, some |-> FALSE, source_ip |-> <<0, 0, 0, 0>>, user_agent |-> <<>>,
     method |-> <<>>]

ParsedSome(ip, ua, method) ==
    [done |-> TRUE, some |-> TRUE, source_ip |-> ip, user_agent |-> ua, method |-> method]

\* the addresses a payload can name in its text
PayloadAddresses == {<<1, 2, 3, 4>>, <<1, 2, 3, 40>>}

\* an extractor that takes the address the payload names, when it names one
parse_udp_packet_trusting_payload(data, ip) ==
    IF ~Utf8Valid(data) \/ MethodMatch(data, Methods) \notin {M_REGISTER, M_INVITE}
    THEN ParsedNone
    ELSE LET named == {a \in PayloadAddresses : Contains(data, IpToString(a))}
         IN ParsedSome(IF named = {} THEN ip
                       ELSE CHOOSE a \in named : \A b \in named : a[4] >= b[4],
                       ExtractUserAgent(data), MethodMatch(data, Methods))

\* an extractor that produces a record for every recognized method
parse_udp_packet_any_method(data, ip) ==
    IF ~Utf8Valid(data) \/ MethodMatch(data, Methods) = <<>>
    THEN ParsedNone
    ELSE ParsedSome(ip, ExtractUserAgent(data), MethodMatch(data, Methods))

\* SipParser::parse_udp_packet
parse_udp_packet(data, ip) ==
    IF ~Utf8Valid(data)
    THEN ParsedNone
    ELSE LET method == MethodMatch(data, Methods)
         IN IF method = <<>>
            THEN ParsedNone
            ELSE LET ua == ExtractUserAgent(data)
                 IN IF method # M_REGISTER /\ method # M_INVITE
                    THEN ParsedNone
                    ELSE ParsedSome(ip, ua, method)

(***************************************************************************)
(* State.                                                                  *)
(***************************************************************************)
VARIABLES
    chain,          \* the rules of the iptables chain, in order
    block_port,     \* IptablesManager.block_port
    flaky,          \* whether firewall commands may fail (see above)
    last,           \* the latest block_ip / unblock_ip call and what it did
    prev,           \* the call before it
    calls,          \* calls made by the client so far
    fromEmpty,      \* the chain was empty when the manager was constructed
    pc,             \* where main's loop is
    iter,           \* iterations of the loop begun so far
    index,          \* the 1-based index of the iteration begun, as [q, r]
    it,             \* what the current iteration pulled and did
    CLEANUP_COUNTER,    \* the static counter, as [q, r]: q * 1000 + r
    overflow_checks,    \* whether the build checks integer overflow
    last_processed,     \* the map from address text to last-seen time
    now,            \* the monotonic clock (Instant::now()), in seconds
    held,           \* the mutexes whose guard is alive
    swept,          \* the latest cleanup pass: the map before and after it
    frame,          \* the bytes of a captured frame (packet.data)
    decoded,        \* what next_packet made of frame
    payload,        \* the bytes handed to parse_udp_packet
    source_ip,      \* the address handed to parse_udp_packet
    parsed,         \* what parse_udp_packet returned
    patterns,       \* Whitelist.patterns
    user_agent,     \* the User-Agent handed to is_allowed
    verdict         \* what is_allowed returned

mgr_vars == <<chain, block_port, flaky, last, prev, calls, fromEmpty>>

loop_vars ==
    <<pc, iter, index, it, CLEANUP_COUNTER, overflow_checks, last_processed, now, held, swept>>

\* the inputs and results of the stages before the policy step
stage_vars == <<frame, decoded, payload, source_ip, parsed, patterns, user_agent, verdict>>

vars == <<mgr_vars, loop_vars, stage_vars>>

NoIp == <<0, 0, 0, 0>>

NoCall ==
    [op |-> "none", ip |-> NoIp, ret |-> "none", log |-> <<>>,
     pre |-> FALSE, post |-> "none", before |-> <<>>]

NoPrev == [op |-> "none", ip |-> NoIp, ret |-> "none", appended |-> FALSE]

\* the record of a call op(ip) that found the chain `before` and gave result r
CallRecord(op, ip, r, before) ==
    [op |-> op, ip |-> ip, ret |-> r.ret, log |-> r.log, pre |-> r.pre,
     post |-> r.post, before |-> before]

\* whether the call c issued the command cmd
Issued(c, cmd) == \E i \in 1..Len(c.log) : c.log[i].cmd = cmd

\* whether the call c issued the command cmd and it succeeded
Succeeded(c, cmd) == \E i \in 1..Len(c.log) : c.log[i].cmd = cmd /\ c.log[i].ok

\* whether the call c issued the command cmd and it did not succeed
Failed(c, cmd) == \E i \in 1..Len(c.log) : c.log[i].cmd = cmd /\ ~c.log[i].ok

Summary(c) == [op |-> c.op, ip |-> c.ip, ret |-> c.ret, appended |-> Issued(c, "A")]

NoIteration ==
    [event |-> "none", ip |-> NoIp, request |-> FALSE, ua |-> <<>>,
     allowed |-> FALSE, blocked |-> FALSE, checklog |-> <<>>, called |-> "none",
     ret |-> "none", calllog |-> <<>>, confirmed |-> "none", before |-> <<>>]

\* no cleanup pass has run
NoSweep == [ran |-> FALSE, at |-> 0, before |-> <<>>, after |-> <<>>]

\* main before its first iteration: the counter is 0 and the map empty
InitLoopVars ==
    /\ pc = "pull"
    /\ iter = 0
    /\ it = NoIteration
    /\ last_processed = <<>>
    /\ now = 0
    /\ held = {}
    /\ swept = NoSweep

\* no frame decoded yet
NoDecoded ==
    [done |-> FALSE, some |-> FALSE, ip |-> NoIp, data |-> <<>>, reads |-> {}, from |-> 0]

\* no payload parsed yet
NoParsed ==
    [done |-> FALSE, some |-> FALSE, source_ip |-> NoIp, user_agent |-> <<>>,
     method |-> <<>>]

\* no User-Agent matched yet
NoVerdict == [done |-> FALSE, res |-> FALSE]

\* the stages before the policy step have been given nothing
StagesIdle ==
    /\ frame = <<>>
    /\ decoded = NoDecoded
    /\ payload = <<>>
    /\ source_ip = NoIp
    /\ parsed = NoParsed
    /\ patterns = <<>>
    /\ user_agent = <<>>
    /\ verdict = NoVerdict

\* the manager is constructed over a chain in any state
InitManager ==
    /\ chain \in SeqsUpTo(Rules, MaxInitRules)
    /\ block_port \in BlockPorts
    /\ last = NoCall
    /\ prev = NoPrev
    /\ calls = 0
    /\ fromEmpty = (chain = <<>>)
    /\ InitLoopVars
    /\ StagesIdle
    /\ CLEANUP_COUNTER = [q |-> 0, r |-> 0]
    /\ index = CLEANUP_COUNTER
    /\ overflow_checks = FALSE

Init == InitManager /\ flaky = FALSE

FaultInit == InitManager /\ flaky = TRUE

\* a client's call op(ip) ends with result r
Finish(op, ip, r) ==
    /\ chain' = r.chain
    /\ last' = CallRecord(op, ip, r, chain)
    /\ prev' = Summary(last)
    /\ calls' = calls + 1
    /\ UNCHANGED <<block_port, flaky, fromEmpty, loop_vars, stage_vars>>

CallLimit == IF flaky THEN MaxFaultyCalls ELSE MaxCalls

CallBlockIp ==
    /\ calls < CallLimit
    /\ \E ip \in IPs : \E r \in block_ip(chain, ip, block_port, flaky) :
           Finish("block_ip", ip, r)

CallUnblockIp ==
    /\ calls < CallLimit
    /\ \E ip \in IPs : \E r \in unblock_ip(chain, ip, block_port, flaky) :
           Finish("unblock_ip", ip, r)

Next == CallBlockIp \/ CallUnblockIp

\* the manager over a firewall that executes every command faithfully
Spec == Init /\ [][Next]_vars

\* the manager over a firewall whose commands may fail
FaultSpec == FaultInit /\ [][Next]_vars

(***************************************************************************)
(* The dispatch loop of main.  One iteration is: NextPacket, then the      *)
(* handler of what it returned (Dispatch, NoPacket or CaptureError), then  *)
(* Tick, the counter block that ends the loop body.                        *)
(***************************************************************************)
\* seconds that can pass while next_packet waits: just under and just over
\* the retention window, so that entries of the map come to be fresher than
\* the window, exactly as old (after the pause of a capture error) and older
Elapsed == {RetentionSecs - 1, RetentionSecs + 1}

\* the chain a previous run of the program can have left behind
LoopChains == {<<>>} \cup {<<RuleSpec(ip, SipPort)>> : ip \in IPs}

\* values of the counter from which the model's few iterations reach the
\* cleanup pass and the end of the u32 range
CounterStarts ==
    {[q |-> 0, r |-> 0], [q |-> 0, r |-> CleanupPeriod - 2],
     [q |-> U32MaxQ, r |-> U32MaxR - 1]}

LoopInit ==
    /\ chain \in LoopChains
    /\ block_port = SipPort
    /\ flaky = TRUE
    /\ last = NoCall
    /\ prev = NoPrev
    /\ calls = 0
    /\ fromEmpty = (chain = <<>>)
    /\ InitLoopVars
    /\ StagesIdle
    /\ CLEANUP_COUNTER \in CounterStarts
    /\ index = CLEANUP_COUNTER
    /\ overflow_checks \in BOOLEAN

\* c = u32::MAX
AtU32Max(c) == c.q = U32MaxQ /\ c.r = U32MaxR

\* c + 1 for c < u32::MAX
Increment(c) ==
    IF c.r = CleanupPeriod - 1 THEN [q |-> c.q + 1, r |-> 0] ELSE [q |-> c.q, r |-> c.r + 1]

\* capture.next_packet(): a decoded frame Ok(Some((source_ip, data))), where
\* request says whether parse_udp_packet(data) yields a REGISTER/INVITE request
\* and ua is its User-Agent; Ok(None), for a timeout or a discarded frame; Err
NextPacket ==
    /\ pc = "pull"
    /\ iter < MaxIter
    /\ iter' = iter + 1
    /\ index' = Increment(index)
    /\ \E d \in Elapsed : now' = now + d
    /\ \/ \E ip \in IPs, ua \in UserAgents :
             /\ it' = [NoIteration EXCEPT !.event = "packet", !.ip = ip,
                                          !.request = TRUE, !.ua = ua, !.before = chain]
             /\ pc' = "packet"
       \/ \E ip \in IPs :
             /\ it' = [NoIteration EXCEPT !.event = "packet", !.ip = ip, !.before = chain]
             /\ pc' = "packet"
       \/ \E e \in {"timeout", "discard"} :
             /\ it' = [NoIteration EXCEPT !.event = e, !.before = chain]
             /\ pc' = "none"
       \/ /\ it' = [NoIteration EXCEPT !.event = "error", !.before = chain]
          /\ pc' = "error"
    /\ UNCHANGED <<mgr_vars, CLEANUP_COUNTER, overflow_checks, last_processed,
                   held, swept, stage_vars>>

\* a loop that records every decoded frame in last_processed, request or not
IgnoreRecording ==
    /\ pc = "packet"
    /\ ~it.request
    /\ last_processed' = MapInsert(last_processed, IpToString(it.ip), now)
    /\ pc' = "tick"
    /\ UNCHANGED <<mgr_vars, iter, index, it, CLEANUP_COUNTER, overflow_checks, now, held, swept,
                   stage_vars>>

\* the Ok(Some(..)) arm with a payload that is no REGISTER/INVITE request
Ignore ==
    /\ pc = "packet"
    /\ ~it.request
    /\ pc' = "tick"
    /\ UNCHANGED <<mgr_vars, iter, index, it, CLEANUP_COUNTER, overflow_checks, last_processed,
                   now, held, swept, stage_vars>>

\* the Ok(Some(..)) arm with a REGISTER/INVITE request: the policy step, then
\* the insert into last_processed
Dispatch ==
    /\ pc = "packet"
    /\ it.request
    /\ \E s \in dispatch(chain, it.ip, it.ua, block_port, flaky) :
          /\ chain' = s.call.chain
          /\ it' = [it EXCEPT !.allowed = s.allowed, !.blocked = s.blocked,
                              !.checklog = s.checklog, !.called = s.called,
                              !.ret = s.call.ret, !.calllog = s.call.log,
                              !.confirmed = s.confirmed]
    /\ last_processed' = MapInsert(last_processed, IpToString(it.ip), now)
    /\ pc' = "tick"
    /\ UNCHANGED <<block_port, flaky, last, prev, calls, fromEmpty, iter, index,
                   CLEANUP_COUNTER, overflow_checks, now, held, swept, stage_vars>>

\* the Ok(None) arm (its TIMEOUT_COUNT only throttles a debug line)
NoPacket ==
    /\ pc = "none"
    /\ pc' = "tick"
    /\ UNCHANGED <<mgr_vars, iter, index, it, CLEANUP_COUNTER, overflow_checks, last_processed,
                   now, held, swept, stage_vars>>

\* a capture error that ends the loop
CaptureErrorExits ==
    /\ pc = "error"
    /\ pc' = "exited"
    /\ UNCHANGED <<mgr_vars, iter, index, it, CLEANUP_COUNTER, overflow_checks, last_processed,
                   now, held, swept, stage_vars>>

\* the Err arm: log, sleep one second
CaptureError ==
    /\ pc = "error"
    /\ now' = now + 1
    /\ pc' = "tick"
    /\ UNCHANGED <<mgr_vars, iter, index, it, CLEANUP_COUNTER, overflow_checks, last_processed,
                   held, swept, stage_vars>>

\* the counter block: CLEANUP_COUNTER += 1, which at u32::MAX panics in a
\* build with overflow checks and wraps to 0 in one without; then the
\* cleanup pass when the counter is a multiple of 1000
Tick ==
    /\ pc = "tick"
    /\ IF AtU32Max(CLEANUP_COUNTER) /\ overflow_checks
       THEN /\ pc' = "panicked"
            /\ UNCHANGED <<CLEANUP_COUNTER, last_processed, swept>>
       ELSE /\ CLEANUP_COUNTER' = IF AtU32Max(CLEANUP_COUNTER) THEN [q |-> 0, r |-> 0]
                                  ELSE Increment(CLEANUP_COUNTER)
            /\ last_processed' = IF CLEANUP_COUNTER'.r = 0
                                 THEN Retain(last_processed, now)
                                 ELSE last_processed
            /\ swept' = IF CLEANUP_COUNTER'.r = 0
                        THEN [ran |-> TRUE, at |-> now, before |-> last_processed,
                              after |-> last_processed']
                        ELSE swept
            /\ pc' = "pull"
    /\ UNCHANGED <<mgr_vars, iter, index, it, overflow_checks, now, held, stage_vars>>

LoopNext == NextPacket \/ Ignore \/ Dispatch \/ NoPacket \/ CaptureError \/ Tick

\* main's loop, over a firewall whose commands may fail
LoopSpec == LoopInit /\ [][LoopNext]_vars

(***************************************************************************)
(* The loop once more, at the grain of its mutex guards: every lock(),     *)
(* every drop of a guard and the operation between them is a step of its   *)
(* own, and the firewall calls of the policy step are one step (Enforce).  *)
(***************************************************************************)
\* the two mutexes of main
WhitelistMutex == "whitelist"

MapMutex == "last_processed"

\* the loop starts as in LoopInit, in a build that wraps on overflow, far from
\* the end of the counter's range
LockInit ==
    /\ chain \in LoopChains
    /\ block_port = SipPort
    /\ flaky = TRUE
    /\ last = NoCall
    /\ prev = NoPrev
    /\ calls = 0
    /\ fromEmpty = (chain = <<>>)
    /\ InitLoopVars
    /\ StagesIdle
    /\ CLEANUP_COUNTER \in {[q |-> 0, r |-> 0], [q |-> 0, r |-> CleanupPeriod - 2]}
    /\ index = CLEANUP_COUNTER
    /\ overflow_checks = FALSE

\* whitelist.lock().unwrap(): blocks while the mutex is held
LockWhitelist ==
    /\ pc = "packet"
    /\ it.request
    /\ WhitelistMutex \notin held
    /\ held' = held \cup {WhitelistMutex}
    /\ pc' = "lookup"
    /\ UNCHANGED <<mgr_vars, iter, index, it, CLEANUP_COUNTER, overflow_checks, last_processed,
                   now, swept, stage_vars>>

\* whitelist_guard.is_allowed(&sip_request.user_agent)
Lookup ==
    /\ pc = "lookup"
    /\ it' = [it EXCEPT !.allowed = IsAllowedOf[it.ua]]
    /\ pc' = "drop"
    /\ UNCHANGED <<mgr_vars, iter, index, CLEANUP_COUNTER, overflow_checks, last_processed,
                   now, held, swept, stage_vars>>

\* a loop whose guard of the allow-list lives on to the end of the block
DropWhitelistAtEndOfBlock ==
    /\ pc = "drop"
    /\ pc' = "enforce"
    /\ UNCHANGED <<mgr_vars, iter, index, it, CLEANUP_COUNTER, overflow_checks, last_processed,
                   now, held, swept, stage_vars>>

\* drop(whitelist_guard)
DropWhitelist ==
    /\ pc = "drop"
    /\ held' = held \ {WhitelistMutex}
    /\ pc' = "enforce"
    /\ UNCHANGED <<mgr_vars, iter, index, it, CLEANUP_COUNTER, overflow_checks, last_processed,
                   now, swept, stage_vars>>

\* the branches on is_allowed: every is_blocked, block_ip and unblock_ip of
\* the iteration
Enforce ==
    /\ pc = "enforce"
    /\ \E s \in dispatch(chain, it.ip, it.ua, block_port, flaky) :
          /\ chain' = s.call.chain
          /\ it' = [it EXCEPT !.allowed = s.allowed, !.blocked = s.blocked,
                              !.checklog = s.checklog, !.called = s.called,
                              !.ret = s.call.ret, !.calllog = s.call.log,
                              !.confirmed = s.confirmed]
    /\ pc' = "record"
    /\ UNCHANGED <<block_port, flaky, last, prev, calls, fromEmpty, iter, index,
                   CLEANUP_COUNTER, overflow_checks, last_processed, now, held, swept,
                   stage_vars>>

\* last_processed.lock().unwrap() of the policy block
LockMap ==
    /\ pc = "record"
    /\ MapMutex \notin held
    /\ held' = held \cup {MapMutex}
    /\ pc' = "insert"
    /\ UNCHANGED <<mgr_vars, iter, index, it, CLEANUP_COUNTER, overflow_checks, last_processed,
                   now, swept, stage_vars>>

\* last_processed_guard.insert(ip_str, Instant::now())
Insert ==
    /\ pc = "insert"
    /\ last_processed' = MapInsert(last_processed, IpToString(it.ip), now)
    /\ pc' = "unlock"
    /\ UNCHANGED <<mgr_vars, iter, index, it, CLEANUP_COUNTER, overflow_checks, now, held, swept,
                   stage_vars>>

\* the end of the block drops last_processed_guard
UnlockMap ==
    /\ pc = "unlock"
    /\ held' = held \ {MapMutex}
    /\ pc' = "tick"
    /\ UNCHANGED <<mgr_vars, iter, index, it, CLEANUP_COUNTER, overflow_checks, last_processed,
                   now, swept, stage_vars>>

\* CLEANUP_COUNTER += 1 and the test of the counter
Count ==
    /\ pc = "tick"
    /\ IF AtU32Max(CLEANUP_COUNTER) /\ overflow_checks
       THEN /\ pc' = "panicked"
            /\ UNCHANGED CLEANUP_COUNTER
       ELSE /\ CLEANUP_COUNTER' = IF AtU32Max(CLEANUP_COUNTER) THEN [q |-> 0, r |-> 0]
                                  ELSE Increment(CLEANUP_COUNTER)
            /\ pc' = IF CLEANUP_COUNTER'.r = 0 THEN "sweep_lock" ELSE "pull"
    /\ UNCHANGED <<mgr_vars, iter, index, it, overflow_checks, last_processed, now, held, swept,
                   stage_vars>>

\* last_processed.lock().unwrap() of the cleanup pass
SweepLock ==
    /\ pc = "sweep_lock"
    /\ MapMutex \notin held
    /\ held' = held \cup {MapMutex}
    /\ pc' = "sweep"
    /\ UNCHANGED <<mgr_vars, iter, index, it, CLEANUP_COUNTER, overflow_checks, last_processed,
                   now, swept, stage_vars>>

\* Instant::now() and last_processed_guard.retain(..)
Sweep ==
    /\ pc = "sweep"
    /\ last_processed' = Retain(last_processed, now)
    /\ swept' = [ran |-> TRUE, at |-> now, before |-> last_processed,
                 after |-> last_processed']
    /\ pc' = "sweep_unlock"
    /\ UNCHANGED <<mgr_vars, iter, index, it, CLEANUP_COUNTER, overflow_checks, now, held,
                   stage_vars>>

\* the end of the if block drops last_processed_guard
SweepUnlock ==
    /\ pc = "sweep_unlock"
    /\ held' = held \ {MapMutex}
    /\ pc' = "pull"
    /\ UNCHANGED <<mgr_vars, iter, index, it, CLEANUP_COUNTER, overflow_checks, last_processed,
                   now, swept, stage_vars>>

LockNext ==
    \/ NextPacket \/ Ignore \/ NoPacket \/ CaptureError
    \/ LockWhitelist \/ Lookup \/ DropWhitelist \/ Enforce
    \/ LockMap \/ Insert \/ UnlockMap
    \/ Count \/ SweepLock \/ Sweep \/ SweepUnlock

LockSpec == LockInit /\ [][LockNext]_vars

(***************************************************************************)
(* The frame decoder on its own: a frame arrives, next_packet decodes it.  *)
(***************************************************************************)
\* the longest frame of the model
MaxFrameLen == 48

\* values of the byte that carries version and IHL: IPv4 with IHL 5, 6, 2
\* and 0, IPv6, and a byte of a MAC address
HeaderBytes == {69, 70, 66, 64, 96, 0}

\* values of the bytes at 12..13: the Ethernet types of IPv4 and IPv6 (read as
\* the start of a source address: 8.0.x.x and 134.221.x.x)
TypeFields == {<<8, 0>>, <<134, 221>>}

\* values of the bytes at 26..27, where the source address of a datagram
\* behind a link-layer header starts
AddrHeads == {<<8, 0>>, <<10, 1>>}

\* the other bytes of a frame
Fill(i) == (i * 5 + 17) % 256

\* the frame of n bytes with the given bytes at 0, 12..13, 14 and 26..27
MkFrame(n, b0, tf, b14, ah) ==
    [k \in 1..n |->
        CASE k = 1 -> b0
          [] k = 13 -> tf[1]
          [] k = 14 -> tf[2]
          [] k = 15 -> b14
          [] k = 27 -> ah[1]
          [] k = 28 -> ah[2]
          [] OTHER -> Fill(k - 1)]

Frames ==
    {MkFrame(n, b0, tf, b14, ah) :
        n \in 0..MaxFrameLen, b0 \in HeaderBytes, tf \in TypeFields,
        b14 \in HeaderBytes, ah \in AddrHeads}

\* the capture hands a frame over
DecodeInit ==
    /\ chain = <<>>
    /\ block_port = SipPort
    /\ flaky = FALSE
    /\ last = NoCall
    /\ prev = NoPrev
    /\ calls = 0
    /\ fromEmpty = TRUE
    /\ InitLoopVars
    /\ CLEANUP_COUNTER = [q |-> 0, r |-> 0]
    /\ index = CLEANUP_COUNTER
    /\ overflow_checks = FALSE
    /\ frame \in Frames
    /\ decoded = NoDecoded
    /\ payload = <<>>
    /\ source_ip = NoIp
    /\ parsed = NoParsed
    /\ patterns = <<>>
    /\ user_agent = <<>>
    /\ verdict = NoVerdict

\* cap.next_packet() returned Ok(packet): the Ok arm of next_packet runs
DecodeFrame ==
    /\ ~decoded.done
    /\ decoded' = next_packet(frame)
    /\ UNCHANGED <<mgr_vars, loop_vars, frame, payload, source_ip, parsed, patterns,
                   user_agent, verdict>>

DecodeSpec == DecodeInit /\ [][DecodeFrame]_vars

(***************************************************************************)
(* The SIP extractor on its own: main hands a payload and the address the  *)
(* decoder found to parse_udp_packet.                                      *)
(***************************************************************************)
\* header lines of a payload of the model
MaxHeaderLines == 2

L_Register ==
    <<"R", "E", "G", "I", "S", "T", "E", "R", " ", "s", "i", "p", ":", "a">>

L_Invite ==
    <<"I", "N", "V", "I", "T", "E", " ", "s", "i", "p", ":", "1", ".", "2",
      ".", "3", ".", "4", "0">>

L_InviteTab ==
    <<"I", "N", "V", "I", "T", "E", "\t", "s", "i", "p", ":", "a">>

L_Options ==
    <<"O", "P", "T", "I", "O", "N", "S", " ", "s", "i", "p", ":", "a">>

L_Info ==
    <<"I", "N", "F", "O", " ", "s", "i", "p", ":", "a">>

L_RegisterBare ==
    <<"R", "E", "G", "I", "S", "T", "E", "R">>

L_Registers ==
    <<"R", "E", "G", "I", "S", "T", "E", "R", "S", " ", "s", "i", "p", ":",
      "a">>

L_LeadingSpace ==
    <<" ", "R", "E", "G", "I", "S", "T", "E", "R", " ", "s", "i", "p", ":",
      "a">>

L_LowerCase ==
    <<"r", "e", "g", "i", "s", "t", "e", "r", " ", "s", "i", "p", ":", "a">>

L_NotSip ==
    <<"n", "o", "t", " ", "s", "i", "p", " ", "d", "a", "t", "a">>

H_UserAgent ==
    <<"U", "s", "e", "r", "-", "A", "g", "e", "n", "t", ":", " ", "F", "o",
      "o", "P", "h", "o", "n", "e", "/", "1", ".", "0">>

H_LowerNoSpace ==
    <<"u", "s", "e", "r", "-", "a", "g", "e", "n", "t", ":", "M", "i", "c",
      "r", "o", "S", "I", "P">>

H_UpperPadded ==
    <<"U", "S", "E", "R", "-", "A", "G", "E", "N", "T", ":", " ", "\t", " ",
      "s", "i", "p", "c", "l", "i", " ", " ">>

H_Empty ==
    <<"U", "s", "e", "r", "-", "A", "g", "e", "n", "t", ":">>

H_Blank ==
    <<"U", "s", "e", "r", "-", "A", "g", "e", "n", "t", ":", " ", " ">>

H_Via ==
    <<"V", "i", "a", ":", " ", "S", "I", "P", "/", "2", ".", "0", "/", "U",
      "D", "P", " ", "1", ".", "2", ".", "3", ".", "4", "0">>

H_Other ==
    <<"X", "-", "U", "s", "e", "r", "-", "A", "g", "e", "n", "t", ":", " ",
      "j", "s", "s", "i", "p">>

CRLF ==
    <<"\r", "\n">>

\* what a payload of the model starts with: request lines, and text that is
\* not quite one; L_Invite names an address in its text
StartLines ==
    {L_Register, L_Invite, L_InviteTab, L_Options, L_Info, L_RegisterBare, L_Registers,
     L_LeadingSpace, L_LowerCase, L_NotSip, <<InvalidByte>> \o L_Register}

\* the lines that can follow; H_Via names an address in its text
HeaderLines ==
    {H_UserAgent, H_LowerNoSpace, H_UpperPadded, H_Empty, H_Blank, H_Via, H_Other}

\* a payload ends with its last line or with an empty line
Endings == {<<>>, CRLF \o CRLF}

RECURSIVE JoinLines(_)
JoinLines(hs) == IF hs = <<>> THEN <<>> ELSE CRLF \o Head(hs) \o JoinLines(Tail(hs))

MkPayload(start, hs, end) == start \o JoinLines(hs) \o end

Payloads ==
    {MkPayload(s, hs, e) :
        s \in StartLines, hs \in SeqsUpTo(HeaderLines, MaxHeaderLines), e \in Endings}

\* the manager and the loop stand by while a single stage is exercised
OutOfLoop ==
    /\ chain = <<>>
    /\ block_port = SipPort
    /\ flaky = FALSE
    /\ last = NoCall
    /\ prev = NoPrev
    /\ calls = 0
    /\ fromEmpty = TRUE
    /\ InitLoopVars
    /\ CLEANUP_COUNTER = [q |-> 0, r |-> 0]
    /\ index = CLEANUP_COUNTER
    /\ overflow_checks = FALSE

\* the decoder returned Ok(Some((source_ip, data)))
ParseInit ==
    /\ OutOfLoop
    /\ frame = <<>>
    /\ decoded = NoDecoded
    /\ payload \in Payloads
    /\ source_ip \in IPs
    /\ parsed = NoParsed
    /\ patterns = <<>>
    /\ user_agent = <<>>
    /\ verdict = NoVerdict

\* parser.parse_udp_packet(&data, source_ip)
ParsePayload ==
    /\ ~parsed.done
    /\ parsed' = parse_udp_packet(payload, source_ip)
    /\ UNCHANGED <<mgr_vars, loop_vars, frame, decoded, payload, source_ip, patterns,
                   user_agent, verdict>>

ParseSpec == ParseInit /\ [][ParsePayload]_vars

(***************************************************************************)
(* The allow-list matcher on its own: a Whitelist is built from a pattern  *)
(* list and asked about a User-Agent.                                      *)
(***************************************************************************)
\* patterns of an allow-list of the model
MaxPatterns == 2

\* "microsip", "MicroSIP Softphone", "jssip" and the empty pattern
P_microsip == <<"m", "i", "c", "r", "o", "s", "i", "p">>

P_Softphone == <<"M", "i", "c", "r", "o", "S", "I", "P", " ", "S", "o", "f", "t", "p", "h", "o", "n", "e">>

P_jssip == <<"j", "s", "s", "i", "p">>

PatternPool == {P_microsip, P_Softphone, P_jssip, <<>>}

\* the lists SIP_UA_WHITELIST can give, and the built-in list
PatternLists == SeqsUpTo(PatternPool, MaxPatterns) \cup {DefaultPatterns}

\* "microsip", "hostile-scanner/1.0", "SIP", "JsSIP" and the empty User-Agent
UA_microsip == <<"m", "i", "c", "r", "o", "s", "i", "p">>

UA_hostile == <<"h", "o", "s", "t", "i", "l", "e", "-", "s", "c", "a", "n", "n", "e", "r", "/", "1", ".", "0">>

UA_SIP == <<"S", "I", "P">>

UA_JsSIP == <<"J", "s", "S", "I", "P">>

MatchAgents == UserAgents \cup {UA_microsip, UA_hostile, UA_SIP, UA_JsSIP, <<>>}

\* Whitelist::new(patterns), and a User-Agent to ask about
MatchInit ==
    /\ OutOfLoop
    /\ frame = <<>>
    /\ decoded = NoDecoded
    /\ payload = <<>>
    /\ source_ip = NoIp
    /\ parsed = NoParsed
    /\ patterns \in PatternLists
    /\ user_agent \in MatchAgents
    /\ verdict = NoVerdict

\* whitelist_guard.is_allowed(&sip_request.user_agent)
Match ==
    /\ ~verdict.done
    /\ verdict' = [done |-> TRUE, res |-> is_allowed(patterns, user_agent)]
    /\ UNCHANGED <<mgr_vars, loop_vars, frame, decoded, payload, source_ip, parsed,
                   patterns, user_agent>>

MatchSpec == MatchInit /\ [][Match]_vars

(***************************************************************************)
(* Properties of the firewall reconciler.                                  *)
(***************************************************************************)
\* what an is_blocked(ip) made now, and executed faithfully, reports
ReportsBlocked(ip) == \E o \in is_blocked(chain, ip, block_port, FALSE) : o.res

\* C1: when block_ip(X) is called twice in sequence against a firewall that
\* executes commands faithfully, the second call issues no append (-A),
\* returns Ok and leaves the chain as the first call left it.
C1_SecondBlockIsNoOp ==
    (last.op = "block_ip" /\ prev.op = "block_ip" /\ prev.ip = last.ip)
        => (~Issued(last, "A") /\ last.ret = "Ok" /\ chain = last.before)

\* the first block_ip(X) appended the rule and a second block_ip(X) followed
C1_Witness ==
    /\ last.op = "block_ip" /\ prev.op = "block_ip" /\ prev.ip = last.ip
    /\ prev.appended /\ ~Issued(last, "A")

\* C2: once unblock_ip(X) has returned Ok, an immediately following
\* is_blocked(X) reports false, whatever the chain held.
C2_UnblockThenNotBlocked ==
    (last.op = "unblock_ip" /\ last.ret = "Ok") => ~ReportsBlocked(last.ip)

\* C3: once block_ip(X) has returned Ok against a firewall that executes
\* commands faithfully, an immediately following is_blocked(X) reports true.
C3_BlockThenBlocked ==
    (last.op = "block_ip" /\ last.ret = "Ok") => ReportsBlocked(last.ip)

\* block_ip(X) found X not blocked, appended the rule and returned Ok
C3_Witness ==
    last.op = "block_ip" /\ last.ret = "Ok" /\ ~last.pre /\ Succeeded(last, "A")

\* no two rules of the chain ch are DROP rules for the same source and port scope
AtMostOneDropPerScope(ch) ==
    \A i, j \in 1..Len(ch) :
        (i # j /\ ch[i].target = "DROP" /\ ch[j].target = "DROP")
            => (ch[i].src # ch[j].src \/ ch[i].dport # ch[j].dport)

\* C4: starting from an empty chain, after any sequence of block_ip and
\* unblock_ip calls against a firewall that executes commands faithfully, the
\* chain holds at most one DROP rule per (source address, port scope).
C4_AtMostOneDropRule == fromEmpty => AtMostOneDropPerScope(chain)

\* from the empty chain, X was blocked by an append and blocked again
C4_Witness ==
    /\ fromEmpty /\ chain # <<>>
    /\ prev.op = "block_ip" /\ prev.appended
    /\ last.op = "block_ip" /\ last.ip = prev.ip

\* the listing command of unblock_ip itself (not the one inside is_blocked)
\* failed: the call's log ends with it
ListingFailed(c) ==
    /\ c.pre
    /\ c.log # <<>>
    /\ c.log[Len(c.log)].cmd = "L" /\ ~c.log[Len(c.log)].ok

\* C5, as stated: unblock_ip(X) returns an error only if both the deletion by
\* line number and the deletion by rule specification fail; when the listing
\* command fails it returns Ok or goes on to the deletion by specification.
C5_ErrOnlyIfBothDeletionsFail ==
    (last.op = "unblock_ip" /\ last.ret = "Err")
        => (Failed(last, "Ds") /\ ~Succeeded(last, "Dn"))

\* C5, amended: unblock_ip(X) returns an error only if its listing command
\* fails, or if no deletion by line number succeeded and the deletion by rule
\* specification fails.
C5_ErrOnlyIfListingOrBothDeletionsFail ==
    (last.op = "unblock_ip" /\ last.ret = "Err")
        => \/ ListingFailed(last)
           \/ (Failed(last, "Ds") /\ ~Succeeded(last, "Dn"))

\* unblock_ip(X) tried a deletion by line number, then the deletion by
\* specification, both failed, and it returned an error
C5_Witness ==
    /\ last.op = "unblock_ip" /\ last.ret = "Err"
    /\ Failed(last, "Dn") /\ Failed(last, "Ds")

\* some command of the call c failed for a reason other than "rule absent"
HadFault(c) == \E i \in 1..Len(c.log) : c.log[i].fault

\* C6: whenever a firewall command issued during block_ip(X) or unblock_ip(X)
\* cannot be invoked or exits non-zero for a reason other than "rule absent",
\* the call does not return Ok while the state it was asked for is not reached.
C6_FailuresSurface ==
    (last.op # "none" /\ HadFault(last) /\ last.ret = "Ok")
        => /\ last.op = "block_ip" => HasRule(chain, RuleSpec(last.ip, block_port))
           /\ last.op = "unblock_ip" => ~HasRule(chain, RuleSpec(last.ip, block_port))

\* C7: for an address is_blocked reports as not blocked, block_ip(X) returns Ok
\* exactly when the append command reports success, whatever the
\* post-condition check then reports, and Err when the append fails.
C7_OkIffAppendSucceeds ==
    (last.op = "block_ip" /\ ~last.pre)
        => /\ Issued(last, "A")
           /\ last.ret = "Ok" <=> Succeeded(last, "A")
           /\ last.ret = "Err" <=> Failed(last, "A")

\* the append succeeded, the post-condition check reported "not blocked" and
\* block_ip still returned Ok
C7_Witness ==
    /\ last.op = "block_ip" /\ ~last.pre
    /\ Succeeded(last, "A") /\ last.post = "false" /\ last.ret = "Ok"

\* C8: unblock_ip(X) on an address is_blocked reports as not blocked returns Ok
\* without issuing any delete command and leaves the chain unchanged.
C8_UnblockOfUnblockedIsNoOp ==
    (last.op = "unblock_ip" /\ ~last.pre)
        => /\ last.ret = "Ok"
           /\ ~Issued(last, "Dn") /\ ~Issued(last, "Ds")
           /\ chain = last.before

\* unblock_ip(X) was called on a non-empty chain that holds no rule for X
C8_Witness ==
    /\ last.op = "unblock_ip" /\ ~last.pre
    /\ last.before # <<>>
    /\ ~HasRule(last.before, RuleSpec(last.ip, block_port))

(***************************************************************************)
(* Properties of the dispatch loop.                                        *)
(***************************************************************************)
\* whether the log holds a command that changes the chain
Mutates(log) == \E i \in 1..Len(log) : log[i].cmd \in {"A", "Dn", "Ds"}

\* the iteration has handled an extracted SIP request
Handled == it.event = "packet" /\ it.request /\ pc \in {"tick", "pull", "panicked"}

\* C9: for every extracted SIP request from address X the loop calls
\* unblock_ip(X) iff the User-Agent is allow-listed and is_blocked(X) is true,
\* calls block_ip(X) iff the User-Agent is not allow-listed and is_blocked(X)
\* is false, and otherwise issues no command that changes the chain.
C9_DispatchPolicy ==
    Handled =>
        /\ it.called = "unblock_ip" <=> (IsAllowedOf[it.ua] /\ it.blocked)
        /\ it.called = "block_ip" <=> (~IsAllowedOf[it.ua] /\ ~it.blocked)
        /\ it.called \in {"none", "block_ip", "unblock_ip"}
        /\ it.called = "none" =>
               (chain = it.before /\ ~Mutates(it.checklog) /\ it.calllog = <<>>)

\* an allow-listed User-Agent came from a blocked address and the loop called
\* unblock_ip, which removed a rule
C9_Witness ==
    /\ Handled /\ it.ua = UA_MicroSIP /\ it.blocked
    /\ it.called = "unblock_ip" /\ it.ret = "Ok" /\ Len(chain) < Len(it.before)

\* where the loop stands right after a per-packet event: a decoded frame (SIP
\* request or not, whatever the manager calls it leads to return), a timeout or
\* discarded frame, a capture error
EventPcs == {"packet", "none", "error"}

\* the loop stands where its next step involves no manager call
AtPlainStep == pc \in {"none", "error", "tick"} \/ (pc = "packet" /\ ~it.request)

\* C10: the loop never terminates because of a per-packet event.  After every
\* event (discarded frame, timeout, capture error and its pause, request with
\* a failed block_ip / unblock_ip) the loop is never stuck, the event's
\* handler hands over to the counter block that ends the iteration, and that
\* block hands over to pulling the next frame.  The loop stops nowhere but in
\* the counter block, on the overflow of CLEANUP_COUNTER in a build with
\* overflow checks, which is no per-packet event.
C10_EventsNeverStopTheLoop ==
    /\ [][/\ pc \in EventPcs => pc' = "tick"
          /\ pc = "tick" =>
                \/ pc' = "pull"
                \/ (pc' = "panicked" /\ AtU32Max(CLEANUP_COUNTER) /\ overflow_checks)]_vars
    /\ [](AtPlainStep => ENABLED LoopNext)
    /\ []((pc = "packet" /\ it.request)
            => dispatch(chain, it.ip, it.ua, block_port, flaky) # {})

\* a block_ip the loop made failed and the loop is back at pulling
C10_Witness ==
    pc = "pull" /\ it.called = "block_ip" /\ it.ret = "Err"

(***************************************************************************)
(* Properties of the frame decoder.                                        *)
(***************************************************************************)
\* the frame without its first 14 bytes
Strip(f) == SubSeq(f, EthHeaderLen + 1, Len(f))

\* d is an IPv4 datagram with a complete network header and UDP header
IsIPv4UdpDatagram(d) ==
    /\ Len(d) >= MinIpHeader + UdpHeaderLen
    /\ HighNibble(d[1]) = 64
    /\ LowNibble(d[1]) >= 5
    /\ Len(d) >= LowNibble(d[1]) * 4 + UdpHeaderLen

\* f is such a datagram behind a link-layer header of type IPv4
Wraps(f) ==
    /\ Len(f) >= EthHeaderLen
    /\ f[13] * 256 + f[14] = EtherTypeIPv4
    /\ IsIPv4UdpDatagram(Strip(f))

\* the source address of the datagram d begins with the bytes 8, 0
FromNet8_0(d) == d[13] * 256 + d[14] = EtherTypeIPv4

\* two results of the decoder are the same
SameDecoded(a, b) == a.some = b.some /\ a.ip = b.ip /\ a.data = b.data

\* the source address and the payload the headers of the datagram d give
DatagramFields(d, r) ==
    r.some =>
        /\ r.ip = <<d[13], d[14], d[15], d[16]>>
        /\ r.data = SubSeq(d, LowNibble(d[1]) * 4 + UdpHeaderLen + 1, Len(d))

\* C11 as claimed: any IPv4+UDP datagram decodes alike behind a link-layer
\* header of type 0x0800 and with that header stripped, to the source
\* address at bytes 12..15 of its network header and the same payload.
C11_StrippedDecodesAlike ==
    (decoded.done /\ Wraps(frame)) =>
        /\ SameDecoded(decoded, next_packet(Strip(frame)))
        /\ DatagramFields(Strip(frame), decoded)

\* C11 as amended: the same, for every IPv4+UDP datagram whose source
\* address does not begin with the bytes 0x08 0x00.
C11_StrippedDecodesAlikeUnlessNet8_0 ==
    (decoded.done /\ Wraps(frame) /\ ~FromNet8_0(Strip(frame))) =>
        /\ SameDecoded(decoded, next_packet(Strip(frame)))
        /\ DatagramFields(Strip(frame), decoded)

\* a datagram with IHL 6 and a payload, from 10.1.x.x, was decoded behind its
\* link-layer header
C11_Witness ==
    /\ decoded.done /\ Wraps(frame) /\ ~FromNet8_0(Strip(frame))
    /\ LowNibble(frame[15]) = 6
    /\ decoded.some /\ Len(decoded.data) > 1
    /\ next_packet(Strip(frame)).some

\* C12: whatever the frame, the decoder reads no index at or past its end and
\* starts no slice past its end, and it discards every frame shorter than 20
\* bytes.
C12_NoReadPastTheEnd ==
    decoded.done =>
        /\ \A i \in decoded.reads : i < Len(frame)
        /\ decoded.from <= Len(frame)
        /\ Len(frame) < MinIpHeader => ~decoded.some

\* a frame of 14..19 bytes with the type field of IPv4 was discarded
C12_Witness ==
    /\ decoded.done /\ ~decoded.some
    /\ Len(frame) >= EthHeaderLen /\ Len(frame) < MinIpHeader
    /\ frame[13] * 256 + frame[14] = EtherTypeIPv4

\* the frame has 20 bytes or more and the network header the decoder locates
\* has version nibble 4
LocatedIPv4(f) ==
    /\ Len(f) >= MinIpHeader
    /\ HighNibble(Byte(f, ip_start_offset(f).off)) = 64

\* header-start + IHL*4 + 8 of such a frame
PayloadStart(f) ==
    ip_start_offset(f).off + LowNibble(Byte(f, ip_start_offset(f).off)) * 4 + UdpHeaderLen

\* what the decoder returns when it does not discard
ReturnsPayload(f, r) ==
    r.some =>
        /\ r.ip = SrcIpBytes(f, ip_start_offset(f).off)
        /\ r.data = SubSeq(f, PayloadStart(f) + 1, Len(f))

\* C17 as claimed: such a frame is discarded only if it is shorter than
\* header-start + IHL*4 + 8; a frame that ends exactly there gives an empty
\* payload.
C17_DiscardsOnlyShortFrames ==
    (decoded.done /\ LocatedIPv4(frame)) =>
        /\ ~decoded.some => Len(frame) < PayloadStart(frame)
        /\ Len(frame) >= PayloadStart(frame) => decoded.some
        /\ ReturnsPayload(frame, decoded)

\* C17 as amended: such a frame is discarded exactly when it is shorter than
\* header-start + 20 or not longer than header-start + IHL*4 + 8; otherwise
\* the decoder returns the source address and the bytes from
\* header-start + IHL*4 + 8 to the end, at least one.
C17_DiscardsFramesWithoutPayload ==
    (decoded.done /\ LocatedIPv4(frame)) =>
        /\ ~decoded.some <=>
              \/ Len(frame) < ip_start_offset(frame).off + MinIpHeader
              \/ Len(frame) <= PayloadStart(frame)
        /\ ReturnsPayload(frame, decoded)
        /\ decoded.some => Len(decoded.data) >= 1

\* a frame with a complete IPv4 and UDP header that ends where the payload
\* would start was discarded
C17_Witness ==
    /\ decoded.done /\ LocatedIPv4(frame)
    /\ LowNibble(Byte(frame, ip_start_offset(frame).off)) = 5
    /\ Len(frame) = PayloadStart(frame)
    /\ ~decoded.some

\* C24: the payload of every decoded frame starts 28 bytes or more after the
\* located start of the network header (20 bytes of IPv4 header at least and
\* 8 of UDP header), whatever the IHL nibble: it holds no byte of a header.
C24_PayloadHoldsNoHeaderByte ==
    (decoded.done /\ decoded.some) =>
        /\ decoded.from >= ip_start_offset(frame).off + MinIpHeader + UdpHeaderLen
        /\ decoded.data = SubSeq(frame, decoded.from + 1, Len(frame))

(***************************************************************************)
(* Properties of the SIP extractor.                                        *)
(***************************************************************************)
\* payloads to compare with: requests that name an address in the request
\* line, in a Via line, in both or nowhere
ComparedPayloads ==
    {MkPayload(s, hs, <<>>) :
        s \in {L_Register, L_Invite}, hs \in SeqsUpTo({H_Via, H_UserAgent}, 1)}

\* what the extractor makes of them, per passed-in address
ParsedOf == [p \in ComparedPayloads, a \in IPs |-> parse_udp_packet(p, a)]

\* C13: the source_ip of a produced record is the address the caller passed
\* in; any two payloads parsed with the same address give records with the
\* same source_ip, whatever addresses their text names.
C13_SourceIpIsThePassedAddress ==
    (parsed.done /\ parsed.some) =>
        /\ parsed.source_ip = source_ip
        /\ \A p \in ComparedPayloads :
              ParsedOf[p, source_ip].some =>
                  ParsedOf[p, source_ip].source_ip = parsed.source_ip

\* a request whose text names 1.2.3.40 arrived from 1.2.3.4 and gave a record
C13_Witness ==
    /\ parsed.done /\ parsed.some
    /\ source_ip = <<1, 2, 3, 4>>
    /\ Contains(payload, IpToString(<<1, 2, 3, 40>>))

RECURSIVE UpToWhite(_)
\* the text before the first white space
UpToWhite(text) ==
    IF text = <<>> \/ Head(text) \in WhiteSpace
    THEN <<>>
    ELSE <<Head(text)>> \o UpToWhite(Tail(text))

\* the recognized methods, and those the extractor does not act on
RecognizedMethods == {Methods[i] : i \in 1..Len(Methods)}

OtherMethods == RecognizedMethods \ {M_REGISTER, M_INVITE}

\* C14: the extractor returns a record only for text whose first token, at
\* the start of the message, is REGISTER or INVITE, and the record's method
\* is that token; it returns None for a payload that is no text, for text
\* that does not start with a recognized method and for the other methods.
C14_OnlyRegisterAndInvite ==
    parsed.done =>
        /\ parsed.some =>
              /\ Utf8Valid(payload)
              /\ UpToWhite(payload) \in {M_REGISTER, M_INVITE}
              /\ parsed.method = UpToWhite(payload)
        /\ ~Utf8Valid(payload) => ~parsed.some
        /\ UpToWhite(payload) \notin RecognizedMethods => ~parsed.some
        /\ UpToWhite(payload) \in OtherMethods => ~parsed.some

\* an INVITE with a User-Agent line gave a record
C14_Witness ==
    /\ parsed.done /\ parsed.some /\ parsed.method = M_INVITE
    /\ Contains(payload, H_UserAgent)

\* where the lines of the text start
LineStarts(text) ==
    {i \in 1..Len(text) : i = 1 \/ text[i - 1] \in LineBreaks}

\* where the lines that carry the User-Agent header start
UaLineStarts(text) == {i \in LineStarts(text) : HeaderNameAt(text, i)}

\* the remainder of the first line that carries the User-Agent header
UaLineRemainder(text) ==
    LET i == CHOOSE j \in UaLineStarts(text) : \A k \in UaLineStarts(text) : j <= k
    IN SubSeq(text, i + Len(UaHeaderName), LineEnd(text, i + Len(UaHeaderName)) - 1)

\* C18: the user_agent of a record is the trimmed remainder of the line that
\* carries the User-Agent header, with no text of another line, and the
\* literal "Unknown" when no line carries the header.
C18_UserAgentIsTheHeaderValue ==
    (parsed.done /\ parsed.some) =>
        parsed.user_agent =
            IF UaLineStarts(payload) = {}
            THEN T_Unknown
            ELSE Trim(UaLineRemainder(payload))

(***************************************************************************)
(* Properties of the allow-list matcher.                                   *)
(***************************************************************************)
\* after lower-casing both, p is a substring of ua or ua is a substring of p
MatchesEitherWay(p, ua) ==
    \/ Contains(ToLower(ua), ToLower(p))
    \/ Contains(ToLower(p), ToLower(ua))

\* C15: is_allowed(ua) is true exactly when some configured pattern matches
\* ua either way after lower-casing both; with no pattern it is false for
\* every User-Agent.
C15_AllowedIffSomePatternMatches ==
    verdict.done =>
        /\ verdict.res <=> \E i \in 1..Len(patterns) : MatchesEitherWay(patterns[i], user_agent)
        /\ patterns = <<>> => ~verdict.res

\* "SIP" was allowed by a list whose second pattern, "microsip", contains it
C15_Witness ==
    /\ verdict.done /\ verdict.res
    /\ user_agent = UA_SIP
    /\ patterns = <<P_jssip, P_microsip>>

(***************************************************************************)
(* Properties of the bookkeeping of the loop.                              *)
(***************************************************************************)
\* the age of the entry k of the map m at time t
Age(m, k, t) == t - m[k]

\* C16: after a cleanup pass every entry older than the retention window of
\* one hour is absent, and every entry fresher than the window is present
\* with its timestamp unchanged; the pass adds nothing.
C16_SweepDropsOldKeepsFresh ==
    swept.ran =>
        /\ \A k \in DOMAIN swept.before :
              /\ Age(swept.before, k, swept.at) > RetentionSecs
                    => k \notin DOMAIN swept.after
              /\ Age(swept.before, k, swept.at) < RetentionSecs
                    => (k \in DOMAIN swept.after /\ swept.after[k] = swept.before[k])
        /\ DOMAIN swept.after \subseteq DOMAIN swept.before
        /\ (pc = "pull" /\ CLEANUP_COUNTER.r = 0) => last_processed = swept.after

\* a cleanup pass met an entry older than the window and a fresher one,
\* dropped the first and kept the second
C16_Witness ==
    /\ swept.ran
    /\ \E k \in DOMAIN swept.before :
          Age(swept.before, k, swept.at) > RetentionSecs /\ k \notin DOMAIN swept.after
    /\ \E k \in DOMAIN swept.before :
          Age(swept.before, k, swept.at) < RetentionSecs /\ k \in DOMAIN swept.after

\* the loop has pulled something that is no REGISTER/INVITE request: a
\* timeout, a frame the decoder discards, a payload the extractor rejects
NonEvent ==
    \/ it.event \in {"timeout", "discard"}
    \/ (it.event = "packet" /\ ~it.request)

\* m2 is m1 without some of its entries
Swept(m1, m2) ==
    /\ DOMAIN m2 \subseteq DOMAIN m1
    /\ \A k \in DOMAIN m2 : m2[k] = m1[k]

\* C20: an iteration that pulls a timeout, a frame the decoder discards or a
\* payload that is no REGISTER/INVITE request issues no firewall command and
\* leaves the chain and the map last_processed as they were; only the
\* cleanup pass, when the counter schedules it, removes entries.
C20_NonEventsChangeNothing ==
    /\ [][pc = "pull" => (chain' = chain /\ last_processed' = last_processed)]_vars
    /\ [][(NonEvent /\ pc \in {"none", "packet"}) =>
              /\ chain' = chain
              /\ last_processed' = last_processed
              /\ it' = it]_vars
    /\ [][(NonEvent /\ pc = "tick") =>
              /\ chain' = chain
              /\ it' = it
              /\ \/ last_processed' = last_processed
                 \/ (CLEANUP_COUNTER'.r = 0 /\ Swept(last_processed, last_processed'))]_vars
    /\ [](NonEvent =>
              /\ it.called = "none" /\ it.checklog = <<>> /\ it.calllog = <<>>
              /\ chain = it.before)

\* an iteration that pulled a frame the decoder discards is over; the chain
\* holds a rule and the map an entry, as before it
C20_Witness ==
    /\ pc = "pull" /\ it.event = "discard"
    /\ chain # <<>> /\ chain = it.before
    /\ last_processed # <<>>

\* where the loop stands while a guard of the allow-list is alive, and while
\* a guard of the map is: right before and right after the one operation
\* made under it
WhitelistGuardPcs == {"lookup", "drop"}

MapGuardPcs == {"insert", "unlock", "sweep", "sweep_unlock"}

\* C19: wherever the loop invokes a firewall command (is_blocked, block_ip,
\* unblock_ip) it holds neither the mutex of the allow-list nor that of the
\* map last_processed; each mutex is held only around a single read, insert
\* or retain.
C19_NoLockAcrossFirewallCommands ==
    /\ pc = "enforce" => held = {}
    /\ WhitelistMutex \in held => pc \in WhitelistGuardPcs
    /\ MapMutex \in held => pc \in MapGuardPcs
    /\ held \subseteq {WhitelistMutex, MapMutex}

\* the loop has called block_ip for a request that is not allow-listed, with
\* no guard alive, and is about to lock the map
C19_Witness ==
    /\ pc = "record" /\ it.called = "block_ip" /\ it.ret = "Ok"
    /\ held = {}

(***************************************************************************)
(* Properties of the reconciler about addresses whose text holds the text  *)
(* of another address.                                                     *)
(***************************************************************************)
\* the DROP rules of the chain ch whose source address is y, in order
RECURSIVE DropRulesFor(_, _)
DropRulesFor(ch, y) ==
    IF ch = <<>> THEN <<>>
    ELSE IF Head(ch).src = y /\ Head(ch).target = "DROP"
         THEN <<Head(ch)>> \o DropRulesFor(Tail(ch), y)
         ELSE DropRulesFor(Tail(ch), y)

\* C22: unblock_ip(X) deletes only rules whose source address is exactly X:
\* for every address Y other than X, 1.2.3.40 for X = 1.2.3.4 included, the
\* DROP rules for Y that the chain held before the call are all still there
\* after it.
C22_UnblockKeepsRulesOfOthers ==
    last.op = "unblock_ip" =>
        \A y \in IPs \ {last.ip} : DropRulesFor(chain, y) = DropRulesFor(last.before, y)

\* C23: once block_ip(X) has returned Ok against a firewall that executes
\* commands faithfully, the chain holds a DROP rule whose source address is
\* exactly X, with the configured port scope, whatever the chain held before.
C23_BlockLeavesRuleForExactAddress ==
    (last.op = "block_ip" /\ last.ret = "Ok") =>
        HasRule(chain, RuleSpec(last.ip, block_port))

(***************************************************************************)
(* Properties of the counter block.                                        *)
(***************************************************************************)
\* the counter block of the iteration has run a cleanup pass
SweepRan == swept'.ran /\ swept' # swept

\* C21: the counter block of an iteration runs the cleanup pass exactly when
\* the 1-based index of the iteration is a multiple of 1000, also once the
\* 32-bit counter has been at its maximum, and it never stops the loop.
C21_SweepOnEveryThousandthIteration ==
    [][pc = "tick" => /\ pc' = "pull"
                      /\ SweepRan <=> index.r = 0]_vars

====
